---- MODULE Spec2Model ----
(***************************************************************************)
(* Model of docs/conf.py of infocyph/InterMix: the version resolver        *)
(* get_version() and the module-level assignments that consume its result  *)
(* (version, release, html_title, html_context).                           *)
(*                                                                         *)
(* Strings are sequences of one-character strings.  The process            *)
(* environment and the behaviour of the external `git` process are chosen  *)
(* in Init and never change; the program then runs line by line.           *)
(* The stdout of the process is the text that pipe.stdout.read() yields    *)
(* (the pipe is opened in text mode).                                      *)
(***************************************************************************)
EXTENDS Integers, Sequences, FiniteSets

VARIABLES env, proc, pc, envReads, spawns, calls, ret,
          version, release, html_title, html_context

vars == <<env, proc, pc, envReads, spawns, calls, ret,
          version, release, html_title, html_context>>

(* ---------------- bounds of the model ---------------- *)
MaxLabelLen == 2
MaxOutLen == 3

(* ---------------- strings ---------------- *)
Whitespace == {" ", "\n"}
Chars == Whitespace \cup {"a", "/"}

Str(n) == UNION {[1..k -> Chars] : k \in 0..n}

None == [has |-> FALSE, val |-> <<>>]
Some(s) == [has |-> TRUE, val |-> s]

TrueStr == <<"T", "r", "u", "e">>
Latest == <<"l", "a", "t", "e", "s", "t">>
project == <<"i","n","f","o","c","y","p","h","/","I","n","t","e","r","M","i","x">>

(* str.strip(): leading, then trailing whitespace removed *)
RECURSIVE LStrip(_)
LStrip(s) == IF s = <<>> \/ s[1] \notin Whitespace THEN s ELSE LStrip(Tail(s))

RECURSIVE RStrip(_)
RStrip(s) == IF s = <<>> \/ s[Len(s)] \notin Whitespace THEN s
             ELSE RStrip(SubSeq(s, 1, Len(s) - 1))

StripLeftOnly(s) == LStrip(s)
Strip(s) == RStrip(LStrip(s))

(* `v or "latest"` *)
OrLatestIdentity(v) == v
OrLatest(v) == IF v # <<>> THEN v ELSE Latest

(* `if v:` on the result of os.environ.get *)
Truthy(v) == v.has /\ v.val # <<>>

(* os.environ.get("READTHEDOCS") == "True" *)
HostedBuild(e) == e.READTHEDOCS = Some(TrueStr)

(* ---------------- the inputs ---------------- *)
FlagValues == {None, Some(TrueStr), Some(<<"t", "r", "u", "e">>), Some(<<"1">>)}
LabelValues == {None} \cup {Some(s) : s \in Str(MaxLabelLen)}
Environments == [READTHEDOCS : FlagValues, READTHEDOCS_VERSION : LabelValues]

ExitCodes == {0, 128}
NoExit == -1
ProcOutcomes ==
    [kind : {"spawn_raises"}, out : {<<>>}, exit : {NoExit}]
    \cup [kind : {"read_raises"}, out : {<<>>}, exit : ExitCodes]
    \cup [kind : {"output"}, out : Str(MaxOutLen), exit : ExitCodes]

(* get_version() as a function of the environment and of what the process does *)
get_version(e, p) ==
    IF HostedBuild(e) /\ Truthy(e.READTHEDOCS_VERSION)
    THEN e.READTHEDOCS_VERSION.val
    ELSE IF p.kind = "output" THEN OrLatest(Strip(p.out)) ELSE Latest

(* ---------------- the program ---------------- *)
Init ==
    /\ env \in Environments
    /\ proc \in ProcOutcomes
    /\ pc = "load"
    /\ envReads = {}
    /\ spawns = 0
    /\ calls = 0
    /\ ret = None
    /\ version = None
    /\ release = None
    /\ html_title = None
    /\ html_context = None

(* line 23, right-hand side: the call *)
CallGetVersion ==
    /\ pc = "load"
    /\ calls' = calls + 1
    /\ pc' = "check_flag"
    /\ UNCHANGED <<env, proc, envReads, spawns, ret,
                   version, release, html_title, html_context>>

(* line 12 *)
CheckFlagIgnored ==
    /\ pc = "check_flag"
    /\ envReads' = envReads \cup {"READTHEDOCS"}
    /\ pc' = "read_label"
    /\ UNCHANGED <<env, proc, spawns, calls, ret,
                   version, release, html_title, html_context>>

CheckFlag ==
    /\ pc = "check_flag"
    /\ envReads' = envReads \cup {"READTHEDOCS"}
    /\ pc' = IF HostedBuild(env) THEN "read_label" ELSE "spawn"
    /\ UNCHANGED <<env, proc, spawns, calls, ret,
                   version, release, html_title, html_context>>

(* lines 13-15 *)
ReadLabelStripped ==
    /\ pc = "read_label"
    /\ envReads' = envReads \cup {"READTHEDOCS_VERSION"}
    /\ IF Truthy(env.READTHEDOCS_VERSION)
       THEN ret' = Some(Strip(env.READTHEDOCS_VERSION.val)) /\ pc' = "returned"
       ELSE ret' = ret /\ pc' = "spawn"
    /\ UNCHANGED <<env, proc, spawns, calls,
                   version, release, html_title, html_context>>

ReadLabelNoReturn ==
    /\ pc = "read_label"
    /\ envReads' = envReads \cup {"READTHEDOCS_VERSION"}
    /\ ret' = ret
    /\ pc' = "spawn"
    /\ UNCHANGED <<env, proc, spawns, calls,
                   version, release, html_title, html_context>>

ReadLabelFallback ==
    /\ pc = "read_label"
    /\ envReads' = envReads \cup {"READTHEDOCS_VERSION"}
    /\ ret' = IF Truthy(env.READTHEDOCS_VERSION)
              THEN Some(env.READTHEDOCS_VERSION.val) ELSE Some(Latest)
    /\ pc' = "returned"
    /\ UNCHANGED <<env, proc, spawns, calls,
                   version, release, html_title, html_context>>

ReadLabel ==
    /\ pc = "read_label"
    /\ envReads' = envReads \cup {"READTHEDOCS_VERSION"}
    /\ IF Truthy(env.READTHEDOCS_VERSION)
       THEN ret' = Some(env.READTHEDOCS_VERSION.val) /\ pc' = "returned"
       ELSE ret' = ret /\ pc' = "spawn"
    /\ UNCHANGED <<env, proc, spawns, calls,
                   version, release, html_title, html_context>>

(* line 17 *)
Spawn ==
    /\ pc = "spawn"
    /\ spawns' = spawns + 1
    /\ pc' = IF proc.kind = "spawn_raises" THEN "except" ELSE "read"
    /\ UNCHANGED <<env, proc, envReads, calls, ret,
                   version, release, html_title, html_context>>

(* lines 18-19 *)
ReadStdout ==
    /\ pc = "read"
    /\ IF proc.kind = "read_raises"
       THEN ret' = ret /\ pc' = "except"
       ELSE ret' = Some(OrLatest(Strip(proc.out))) /\ pc' = "returned"
    /\ UNCHANGED <<env, proc, envReads, spawns, calls,
                   version, release, html_title, html_context>>

(* lines 20-21 *)
ExceptReraise ==
    /\ pc = "except"
    /\ pc' = "raised"
    /\ UNCHANGED <<env, proc, envReads, spawns, calls, ret,
                   version, release, html_title, html_context>>

ExceptRetry ==
    /\ pc = "except"
    /\ IF spawns < 2
       THEN ret' = ret /\ pc' = "spawn"
       ELSE ret' = Some(Latest) /\ pc' = "returned"
    /\ UNCHANGED <<env, proc, envReads, spawns, calls,
                   version, release, html_title, html_context>>

Except ==
    /\ pc = "except"
    /\ ret' = Some(Latest)
    /\ pc' = "returned"
    /\ UNCHANGED <<env, proc, envReads, spawns, calls,
                   version, release, html_title, html_context>>

(* lines 23-24 *)
AssignVersion ==
    /\ pc = "returned"
    /\ version' = ret
    /\ release' = version'
    /\ pc' = "title"
    /\ UNCHANGED <<env, proc, envReads, spawns, calls, ret,
                   html_title, html_context>>

(* line 95 *)
BuildTitleStripped ==
    /\ pc = "title"
    /\ html_title' = Some(project \o <<" ">> \o Strip(version.val)
                          \o <<" ", "M", "a", "n", "u", "a", "l">>)
    /\ pc' = "context"
    /\ UNCHANGED <<env, proc, envReads, spawns, calls, ret,
                   version, release, html_context>>

BuildTitle ==
    /\ pc = "title"
    /\ html_title' = Some(project \o <<" ">> \o version.val
                          \o <<" ", "M", "a", "n", "u", "a", "l">>)
    /\ pc' = "context"
    /\ UNCHANGED <<env, proc, envReads, spawns, calls, ret,
                   version, release, html_context>>

(* lines 110-116 *)
BuildContext ==
    /\ pc = "context"
    /\ html_context' = Some([display_github |-> FALSE,
                             github_user |-> "infocyph",
                             github_repo |-> "InterMix",
                             github_version |-> version.val,
                             conf_py_path |-> "/docs/"])
    /\ pc' = "done"
    /\ UNCHANGED <<env, proc, envReads, spawns, calls, ret,
                   version, release, html_title>>

Next ==
    \/ CallGetVersion
    \/ CheckFlag
    \/ ReadLabel
    \/ Spawn
    \/ ReadStdout
    \/ Except
    \/ AssignVersion
    \/ BuildTitle
    \/ BuildContext

Spec == Init /\ [][Next]_vars

(* ---------------- vocabulary of the properties ---------------- *)
Returned == pc \in {"returned", "title", "context", "done"}

Label == env.READTHEDOCS_VERSION

AllWhitespace(s) == \A i \in 1..Len(s) : s[i] \in Whitespace

(* t is o with leading and trailing whitespace removed and nothing else changed *)
IsTrimOf(t, o) ==
    /\ t # <<>>
    /\ t[1] \notin Whitespace
    /\ t[Len(t)] \notin Whitespace
    /\ \E i \in 0..Len(o) :
          /\ i + Len(t) <= Len(o)
          /\ AllWhitespace(SubSeq(o, 1, i))
          /\ SubSeq(o, i + 1, i + Len(t)) = t
          /\ AllWhitespace(SubSeq(o, i + Len(t) + 1, Len(o)))

TypeOK ==
    /\ env \in Environments
    /\ proc \in ProcOutcomes
    /\ pc \in {"load", "check_flag", "read_label", "spawn", "read", "except",
               "returned", "title", "context", "done"}
    /\ envReads \subseteq {"READTHEDOCS", "READTHEDOCS_VERSION"}
    /\ spawns \in 0..1
    /\ calls \in 0..1

(* ---------------- properties ---------------- *)

(* C1: when READTHEDOCS is "True" and READTHEDOCS_VERSION is a non-empty   *)
(* string S, get_version() returns exactly S, untrimmed, whatever the      *)
(* version-control process would do.                                       *)
C1_HostedLabelReturned ==
    (Returned /\ HostedBuild(env) /\ Label.has /\ Label.val # <<>>)
        => ret = Some(Label.val)

C1_Witness ==
    /\ Returned
    /\ HostedBuild(env)
    /\ Label = Some(<<" ", "a">>)
    /\ ret = Some(<<" ", "a">>)
    /\ proc.kind = "output"
    /\ proc.out = <<"/">>

(* C2 (as claimed): when the hosted path returned no label and the         *)
(* version-control command could not be spawned or exited with a non-zero  *)
(* status, get_version() returns "latest" for every content of stdout.     *)
C2_FailureGivesLatest ==
    (/\ Returned
     /\ ~(HostedBuild(env) /\ Truthy(Label))
     /\ (proc.kind = "spawn_raises" \/ proc.exit # 0))
        => ret = Some(Latest)

(* C3: get_version() never propagates an error and always returns a        *)
(* non-empty string, for every environment and every process outcome.      *)
C3_AlwaysUsableString ==
    /\ pc # "raised"
    /\ Returned => (ret.has /\ ret.val # <<>>)
    /\ ~Returned => ~ret.has

C3_Witness ==
    /\ Returned
    /\ proc.kind = "read_raises"
    /\ spawns = 1
    /\ ret = Some(Latest)

(* C4: when READTHEDOCS is unset, READTHEDOCS_VERSION is never read and    *)
(* the result is the same for every value of READTHEDOCS_VERSION.          *)
C4_LabelNotReadWhenFlagUnset ==
    (~env.READTHEDOCS.has) =>
        /\ "READTHEDOCS_VERSION" \notin envReads
        /\ Returned =>
              \A l \in LabelValues :
                  ret = Some(get_version([env EXCEPT !.READTHEDOCS_VERSION = l], proc))

C4_Witness ==
    /\ Returned
    /\ ~env.READTHEDOCS.has
    /\ Label = Some(<<"a">>)
    /\ proc.kind = "output"
    /\ proc.out = <<"/", "\n">>
    /\ ret = Some(<<"/">>)
    /\ envReads = {"READTHEDOCS"}

(* C5: when READTHEDOCS is unset and the command succeeds with stdout O    *)
(* whose trimmed form T is non-empty, get_version() returns exactly T:     *)
(* leading and trailing whitespace removed and nothing else changed.       *)
C5_TrimmedBranchReturned ==
    (/\ Returned
     /\ ~env.READTHEDOCS.has
     /\ proc.kind = "output"
     /\ proc.exit = 0
     /\ ~AllWhitespace(proc.out))
        => (ret.has /\ IsTrimOf(ret.val, proc.out))

C5_Witness ==
    /\ Returned
    /\ ~env.READTHEDOCS.has
    /\ proc.kind = "output"
    /\ proc.exit = 0
    /\ proc.out = <<" ", "a", "\n">>
    /\ ret = Some(<<"a">>)

(* C6: when the command is run and succeeds with empty or whitespace-only  *)
(* stdout, get_version() returns "latest" and never the empty string.      *)
C6_EmptyOutputGivesLatest ==
    (/\ Returned
     /\ spawns = 1
     /\ proc.kind = "output"
     /\ proc.exit = 0
     /\ AllWhitespace(proc.out))
        => ret = Some(Latest)

C6_Witness ==
    /\ Returned
    /\ spawns = 1
    /\ proc.kind = "output"
    /\ proc.exit = 0
    /\ proc.out = <<" ", "\n">>
    /\ ret = Some(Latest)

(* C7 (as claimed): when READTHEDOCS is "True" but READTHEDOCS_VERSION is  *)
(* unset or empty, get_version() returns "latest".                         *)
C7_HostedNoLabelGivesLatest ==
    (Returned /\ HostedBuild(env) /\ ~(Label.has /\ Label.val # <<>>))
        => ret = Some(Latest)

(* C7 (amended): when READTHEDOCS is "True" but READTHEDOCS_VERSION is     *)
(* unset or empty, get_version() falls through to the version-control      *)
(* query: it spawns the command once and returns the trimmed stdout if     *)
(* that is non-empty, and "latest" if the spawn or the read raises or the  *)
(* trimmed stdout is empty.                                                *)
C7_HostedNoLabelFallsThrough ==
    (Returned /\ HostedBuild(env) /\ ~(Label.has /\ Label.val # <<>>))
        => /\ spawns = 1
           /\ ret.has
           /\ IF proc.kind = "output" /\ ~AllWhitespace(proc.out)
              THEN IsTrimOf(ret.val, proc.out)
              ELSE ret.val = Latest

C7_Witness ==
    /\ Returned
    /\ HostedBuild(env)
    /\ Label = Some(<<>>)
    /\ proc.kind = "output"
    /\ proc.out = <<"a", "\n">>
    /\ spawns = 1
    /\ ret = Some(<<"a">>)

(* C8: after configuration load html_title is                              *)
(* "infocyph/InterMix {version} Manual" with {version} the value           *)
(* get_version() returned; version, release and                            *)
(* html_context["github_version"] hold that same value, and the resolver   *)
(* was called exactly once.                                                *)
C8_TitleEmbedsVersion ==
    pc = "done" =>
        /\ calls = 1
        /\ ret.has
        /\ version = ret
        /\ release = ret
        /\ html_context.val.github_version = ret.val
        /\ html_title.val =
              <<"i","n","f","o","c","y","p","h","/","I","n","t","e","r","M","i","x"," ">>
              \o ret.val \o <<" ","M","a","n","u","a","l">>

C8_Witness ==
    /\ pc = "done"
    /\ ret = Some(<<"a", " ">>)
    /\ Len(html_title.val) = 27
    /\ html_title.val[19] = "a"
    /\ html_title.val[20] = " "
    /\ html_context.val.github_version = <<"a", " ">>

C10_HostedLabelShortCircuits ==
    /\ (env.READTHEDOCS = Some(TrueStr) /\ Label.has /\ Label.val # <<>>)
          => (spawns = 0 /\ pc \notin {"spawn", "read", "except"})
    /\ spawns > 0 =>
          (env.READTHEDOCS # Some(TrueStr) \/ ~Label.has \/ Label.val = <<>>)

C10_Witness ==
    /\ pc = "done"
    /\ env.READTHEDOCS = Some(TrueStr)
    /\ Label = Some(<<"/", "a">>)
    /\ ret = Some(<<"/", "a">>)
    /\ spawns = 0

====
